---- MODULE Spec2Model ----
(***************************************************************************)
(* A model of package btcutil's amount.go: the Amount and AmountUnit types *)
(* with NewAmount, round, ToUnit, ToOMC, Format, String and MulF64.        *)
(*                                                                         *)
(* The code computes in float64 and int64.  TLC's integers are 32 bits     *)
(* wide, so naturals of any size are kept as little-endian sequences of    *)
(* limbs in base 2^15, and float64 is built on them: a sign, a 53-bit      *)
(* significand and a binary exponent, rounded to nearest, ties to even,    *)
(* with subnormals, signed zeros, infinities and NaN.                      *)
(*                                                                         *)
(* An intermediate value that is used more than once is passed on as the   *)
(* argument of a further operator, so that it is written, and evaluated,   *)
(* once.                                                                   *)
(***************************************************************************)
EXTENDS Integers, Sequences, FiniteSets, TLC

Max(a, b) == IF a >= b THEN a ELSE b
Min(a, b) == IF a <= b THEN a ELSE b
Abs(n) == IF n < 0 THEN -n ELSE n

(***************************************************************************)
(* Naturals of any size: <<>> is 0, the last limb is never 0.              *)
(***************************************************************************)
LimbBits == 3 * 5
Base == 2^LimbBits

RECURSIVE NNorm(_)
NNorm(a) ==
    IF a = <<>> THEN a
    ELSE IF a[Len(a)] = 0 THEN NNorm(SubSeq(a, 1, Len(a) - 1))
    ELSE a

RECURSIVE NFromInt(_)
NFromInt(n) == IF n = 0 THEN <<>> ELSE <<n % Base>> \o NFromInt(n \div Base)

RECURSIVE NToInt(_)
NToInt(a) == IF a = <<>> THEN 0 ELSE a[1] + Base * NToInt(Tail(a))

Limb(a, i) == IF i <= Len(a) THEN a[i] ELSE 0
Rest(a) == IF a = <<>> THEN a ELSE Tail(a)

\* a + b + c, limb by limb with carry c.
RECURSIVE NAddC(_, _, _)
NAddC(a, b, c) ==
    IF a = <<>> /\ b = <<>> THEN (IF c = 0 THEN <<>> ELSE <<c>>)
    ELSE <<(Limb(a, 1) + Limb(b, 1) + c) % Base>>
             \o NAddC(Rest(a), Rest(b), (Limb(a, 1) + Limb(b, 1) + c) \div Base)

NAdd(a, b) == NAddC(a, b, 0)

\* a - b - c for a >= b + c, limb by limb with borrow c.
RECURSIVE NSubC(_, _, _)
NSubC(a, b, c) ==
    IF a = <<>> THEN <<>>
    ELSE <<(a[1] - Limb(b, 1) - c) % Base>>
             \o NSubC(Tail(a), Rest(b), IF a[1] - Limb(b, 1) - c < 0 THEN 1 ELSE 0)

NSub(a, b) == NNorm(NSubC(a, b, 0))

\* -1, 0 or 1 as a < b, a = b or a > b.
RECURSIVE NCmpAt(_, _, _)
NCmpAt(a, b, i) ==
    IF i = 0 THEN 0
    ELSE IF a[i] < b[i] THEN -1
    ELSE IF a[i] > b[i] THEN 1
    ELSE NCmpAt(a, b, i - 1)

NCmp(a, b) ==
    IF Len(a) < Len(b) THEN -1
    ELSE IF Len(a) > Len(b) THEN 1
    ELSE NCmpAt(a, b, Len(a))

NLess(a, b) == NCmp(a, b) < 0
NLeq(a, b) == NCmp(a, b) <= 0

\* a * k + c for 0 <= k, c < Base.
RECURSIVE NMulSmallC(_, _, _)
NMulSmallC(a, k, c) ==
    IF a = <<>> THEN (IF c = 0 THEN <<>> ELSE <<c>>)
    ELSE <<(a[1] * k + c) % Base>> \o NMulSmallC(Tail(a), k, (a[1] * k + c) \div Base)

NMulSmall(a, k) == IF k = 0 THEN <<>> ELSE NMulSmallC(a, k, 0)

\* a * Base^n
Zeros(n) == [i \in 1..n |-> 0]
NShiftLimbs(a, n) == IF a = <<>> THEN a ELSE Zeros(n) \o a

\* a * b, from the top limb of b down: acc is a times the limbs of b above
\* the i-th.  (The test on acc never holds: it makes the evaluation proceed
\* limb by limb.)
RECURSIVE NMulAt(_, _, _, _)
NMulAt(a, b, i, acc) ==
    IF i = 0 \/ Len(acc) < 0 THEN acc
    ELSE NMulAt(a, b, i - 1, NAdd(NMulSmall(a, b[i]), NShiftLimbs(acc, 1)))

NMul(a, b) == NMulAt(a, b, Len(b), <<>>)

NSquare(a) == NMul(a, a)

\* Quotient and remainder of a by 0 < d < Base, from the top limb down:
\* DivSmallAt divides the limbs i..1 with r carried in and the quotient
\* limbs found so far in acc.
RECURSIVE DivSmallAt(_, _, _, _, _)
DivSmallAt(a, d, i, r, acc) ==
    IF i = 0 THEN [q |-> NNorm(acc), r |-> r]
    ELSE DivSmallAt(a, d, i - 1, (r * Base + a[i]) % d,
                    <<(r * Base + a[i]) \div d>> \o acc)

NDivModSmall(a, d) == DivSmallAt(a, d, Len(a), 0, <<>>)

NBitLenSmall(n) == IF n = 0 THEN 0 ELSE CHOOSE k \in 1..LimbBits : 2^(k-1) <= n /\ n < 2^k
NBitLen(a) == IF a = <<>> THEN 0 ELSE (Len(a) - 1) * LimbBits + NBitLenSmall(a[Len(a)])

\* a * 2^s and floor(a / 2^s)
NShl(a, s) == NShiftLimbs(NMulSmall(a, 2^(s % LimbBits)), s \div LimbBits)
NShr(a, s) ==
    IF s \div LimbBits >= Len(a) THEN <<>>
    ELSE NDivModSmall(SubSeq(a, s \div LimbBits + 1, Len(a)), 2^(s % LimbBits)).q

NPow2(s) == NShl(<<1>>, s)
NIsOdd(a) == a # <<>> /\ a[1] % 2 = 1

\* The largest q with d * q <= t, counting down from an estimate q >= it.
RECURSIVE QuotLimb(_, _, _)
QuotLimb(t, d, q) ==
    IF NLeq(NMulSmall(d, q), t) THEN q ELSE QuotLimb(t, d, q - 1)

\* The estimate: the top two limbs of t by the top limb of d, which is at
\* most 2 above the quotient limb when the top limb of d is at least Base/2.
QuotGuess(t, d) ==
    Min(Base - 1, (Limb(t, Len(d) + 1) * Base + Limb(t, Len(d))) \div d[Len(d)])

\* One step of long division: the quotient limb ql of t by d and the
\* remainder, for t < d * Base.
QuotRem(t, d, ql) == [q |-> ql, r |-> NSub(t, NMulSmall(d, ql))]
QuotStep(t, d) == QuotRem(t, d, QuotLimb(t, d, QuotGuess(t, d)))

\* Long division of a by d # 0, one quotient limb at a time from the top:
\* r is the remainder carried in, acc the quotient limbs found so far and s
\* the step for the remainder with the limb i of a brought down.  (The test
\* on s never holds: it makes the evaluation proceed limb by limb.)
RECURSIVE DivAt(_, _, _, _, _)
DivNext(a, d, i, acc, s) ==
    IF s.q < 0 THEN s ELSE DivAt(a, d, i - 1, s.r, <<s.q>> \o acc)

DivAt(a, d, i, r, acc) ==
    IF i = 0 THEN [q |-> NNorm(acc), r |-> r]
    ELSE DivNext(a, d, i, acc, QuotStep(NNorm(<<a[i]>> \o r), d))

\* Quotient and remainder of a by d # 0: both are scaled by 2^s so that the
\* top limb of the divisor is at least Base/2.
DivUnscale(x, s) == [q |-> x.q, r |-> NShr(x.r, s)]
DivScaled(a, d, s) == DivUnscale(DivAt(a, d, Len(a), <<>>, <<>>), s)
DivScale(a, d, s) == DivScaled(NShl(a, s), NShl(d, s), s)
NDivMod(a, d) == DivScale(a, d, LimbBits - NBitLenSmall(d[Len(d)]))

RECURSIVE NPow10(_)
NPow10(n) ==
    IF n = 0 THEN <<1>>
    ELSE IF n % 2 = 1 THEN NMulSmall(NPow10(n - 1), 10)
    ELSE NSquare(NPow10(n \div 2))

(***************************************************************************)
(* float64.  A value is a record: k is "nan", "inf" or "fin"; neg is the   *)
(* sign bit; a finite value is m * 2^e with m < 2^53, and either m has     *)
(* exactly 53 bits or e = MinExp (a subnormal, or zero with e = MinExp).   *)
(***************************************************************************)
ManBits == 53
MinExp == -1074
MaxExp == 971

FNaN == [k |-> "nan", neg |-> FALSE, m |-> <<>>, e |-> 0]
FInf(neg) == [k |-> "inf", neg |-> neg, m |-> <<>>, e |-> 0]
FZero(neg) == [k |-> "fin", neg |-> neg, m |-> <<>>, e |-> MinExp]

IsNaN(f) == f.k = "nan"
IsInf(f, sign) ==
    /\ f.k = "inf"
    /\ \/ sign = 0
       \/ sign > 0 /\ ~f.neg
       \/ sign < 0 /\ f.neg
IsFinite(f) == f.k = "fin"
FIsZero(f) == f.k = "fin" /\ f.m = <<>>

\* m * 2^e as a float64 when it needs no rounding (m < 2^53, e >= MinExp).
Pack(neg, m, e) ==
    IF m = <<>> THEN FZero(neg)
    ELSE IF e > MaxExp THEN FInf(neg)
    ELSE [k |-> "fin", neg |-> neg, m |-> m, e |-> e]

\* A positive float64 constant by its significand and exponent.
F64(m, e) == Pack(FALSE, m, e)

\* The float64 nearest to n * 2^e, ties to even; sticky says that the exact
\* value lies strictly above n * 2^e (and below (n+1) * 2^e).  te is the
\* exponent of the result's last place, q the significand cut off there, c
\* compares what was cut off with half of the last place, and a significand
\* rounded up to 2^53 moves one place on.
RoundCarry(neg, m, te) ==
    IF NBitLen(m) > ManBits THEN Pack(neg, NShr(m, 1), te + 1) ELSE Pack(neg, m, te)

RoundTie(neg, q, te, sticky, c) ==
    RoundCarry(neg,
               IF c > 0 \/ (c = 0 /\ (sticky \/ NIsOdd(q))) THEN NAdd(q, <<1>>) ELSE q,
               te)

RoundCut(neg, n, e, sticky, te, q) ==
    RoundTie(neg, q, te, sticky, NCmp(NSub(n, NShl(q, te - e)), NPow2(te - e - 1)))

RoundAt(neg, n, e, sticky, te) ==
    IF te <= e THEN Pack(neg, NShl(n, e - te), te)
    ELSE RoundCut(neg, n, e, sticky, te, NShr(n, te - e))

RoundF(neg, n, e, sticky) ==
    IF n = <<>> THEN FZero(neg)
    ELSE RoundAt(neg, n, e, sticky, Max(MinExp, e + NBitLen(n) - ManBits))

FNeg(f) == IF f.k = "nan" THEN f ELSE [f EXCEPT !.neg = ~f.neg]

\* An operand more than AlignGap binary places below the other only decides
\* the rounding direction: it is replaced by one unit AlignGap places below.
AlignGap == 2 * ManBits + 14

\* hi + lo for finite nonzero hi and lo with hi.e >= lo.e; nh is the
\* significand of hi on the scale of lo.
FAddMag(hi, lo, nh) ==
    IF hi.neg # lo.neg /\ nh = lo.m THEN FZero(FALSE)
    ELSE RoundF(IF hi.neg = lo.neg \/ NLess(lo.m, nh) THEN hi.neg ELSE lo.neg,
                IF hi.neg = lo.neg THEN NAdd(nh, lo.m)
                ELSE IF NLess(lo.m, nh) THEN NSub(nh, lo.m)
                ELSE NSub(lo.m, nh),
                lo.e, FALSE)

FAddAligned(hi, lo) == FAddMag(hi, lo, NShl(hi.m, hi.e - lo.e))

FAddOrdered(hi, lo) ==
    FAddAligned(hi, IF hi.e - lo.e > AlignGap
                    THEN [lo EXCEPT !.m = <<1>>, !.e = hi.e - AlignGap]
                    ELSE lo)

FAddFin(x, y) ==
    FAddOrdered(IF x.e >= y.e THEN x ELSE y, IF x.e >= y.e THEN y ELSE x)

\* x + y
FAdd(x, y) ==
    IF x.k = "nan" \/ y.k = "nan" THEN FNaN
    ELSE IF x.k = "inf" /\ y.k = "inf" THEN (IF x.neg = y.neg THEN x ELSE FNaN)
    ELSE IF x.k = "inf" THEN x
    ELSE IF y.k = "inf" THEN y
    ELSE IF FIsZero(x) /\ FIsZero(y) THEN FZero(x.neg /\ y.neg)
    ELSE IF FIsZero(x) THEN y
    ELSE IF FIsZero(y) THEN x
    ELSE FAddFin(x, y)

\* x - y
FSub(x, y) == FAdd(x, FNeg(y))

\* x * y
FMul(x, y) ==
    IF x.k = "nan" \/ y.k = "nan" THEN FNaN
    ELSE IF x.k = "inf" \/ y.k = "inf"
    THEN (IF FIsZero(x) \/ FIsZero(y) THEN FNaN ELSE FInf(x.neg # y.neg))
    ELSE RoundF(x.neg # y.neg, NMul(x.m, y.m), x.e + y.e, FALSE)

\* x / y: the quotient of the significands, shifted by s to have at least
\* 56 bits, the remainder kept as the sticky bit.
FDivRound(neg, d, e) == RoundF(neg, d.q, e, d.r # <<>>)
FDivShift(x, y, s) ==
    FDivRound(x.neg # y.neg, NDivMod(NShl(x.m, s), y.m), x.e - s - y.e)
FDivFin(x, y) == FDivShift(x, y, Max(0, ManBits + 3 + NBitLen(y.m) - NBitLen(x.m)))

FDiv(x, y) ==
    IF x.k = "nan" \/ y.k = "nan" THEN FNaN
    ELSE IF x.k = "inf" THEN (IF y.k = "inf" THEN FNaN ELSE FInf(x.neg # y.neg))
    ELSE IF y.k = "inf" THEN FZero(x.neg # y.neg)
    ELSE IF FIsZero(y) THEN (IF FIsZero(x) THEN FNaN ELSE FInf(x.neg # y.neg))
    ELSE IF FIsZero(x) THEN FZero(x.neg # y.neg)
    ELSE FDivFin(x, y)

\* f < 0 (false for NaN and for both zeros)
FLtZero(f) == f.k # "nan" /\ f.neg /\ ~FIsZero(f)

(***************************************************************************)
(* int64 and the conversions between int64 and float64.  An Amount is a    *)
(* sign and a magnitude, [neg, mag], with mag <= 2^63 - 1, or 2^63 when    *)
(* neg; zero is never negative.                                            *)
(***************************************************************************)
IntBits == 64

Int64(neg, mag) == [neg |-> neg /\ mag # <<>>, mag |-> mag]
\* -2^63 and 2^63 - 1 (2^63 is 8 * Base^4)
MinInt64 == [neg |-> TRUE, mag |-> <<0, 0, 0, 0, 8>>]
MaxInt64 == [neg |-> FALSE, mag |-> <<Base - 1, Base - 1, Base - 1, Base - 1, 7>>]

\* The int64 of a small integer of the model.
I64(n) == Int64(n < 0, NFromInt(Abs(n)))

\* -a, wrapping as int64 does.
NegInt64(a) == IF a = MinInt64 THEN a ELSE Int64(~a.neg, a.mag)

\* float64(a)
Float64(a) == RoundF(a.neg, a.mag, 0, FALSE)

\* The integer part of a finite f, as a magnitude.
Trunc(f) == IF f.e >= 0 THEN NShl(f.m, f.e) ELSE NShr(f.m, -f.e)

\* The builds differ on a conversion whose value int64 cannot hold: amd64
\* returns the "integer indefinite" value, arm64 saturates and maps NaN to 0.
Archs == {"amd64", "arm64"}

OutOfRange(arch, f) ==
    IF arch = "amd64" THEN MinInt64
    ELSE IF f.k = "nan" THEN Int64(FALSE, <<>>)
    ELSE IF f.neg THEN MinInt64
    ELSE MaxInt64

\* The value of sign neg and magnitude mag, when int64 holds it.
FitsInt64(neg, mag) == NLeq(mag, IF neg THEN MinInt64.mag ELSE MaxInt64.mag)

ConvInt64(arch, f, mag) ==
    IF FitsInt64(f.neg, mag) THEN Int64(f.neg, mag) ELSE OutOfRange(arch, f)

\* int64(f): truncation toward zero; outside int64 the result depends on
\* the build.
ToInt64(arch, f) ==
    IF f.k = "fin" THEN ConvInt64(arch, f, Trunc(f)) ELSE OutOfRange(arch, f)

(***************************************************************************)
(* amount.go                                                               *)
(***************************************************************************)
AmountMegaOMC == 6
AmountKiloOMC == 3
AmountOMC == 0
AmountMilliOMC == -3
AmountMicroOMC == -6
AmountHao == -8

\* The number of Hao in one coin, 1e8, as the float64 constant it is used as.
HaoPerBitcoin == Float64(I64(10^8))

\* The constant 0.5
Half == F64(<<0, 0, 0, 128>>, -ManBits)

Digit(d) == SubSeq("0123456789", d + 1, d + 1)

RECURSIVE NatStr(_)
NatStr(n) == IF n < 10 THEN Digit(n) ELSE NatStr(n \div 10) \o Digit(n % 10)

\* strconv.FormatInt(i, 10)
FormatInt(i) == IF i < 0 THEN "-" \o NatStr(-i) ELSE NatStr(i)

\* A faulty String, without the case for AmountHao.
UnitStringNoHao(u) ==
    CASE u = AmountMegaOMC -> "MOMC"
      [] u = AmountKiloOMC -> "kOMC"
      [] u = AmountOMC -> "OMC"
      [] u = AmountMilliOMC -> "mOMC"
      [] u = AmountMicroOMC -> "μOMC"
      [] OTHER -> "1e" \o FormatInt(u) \o " OMC"

\* func (u AmountUnit) String() string
UnitString(u) ==
    CASE u = AmountMegaOMC -> "MOMC"
      [] u = AmountKiloOMC -> "kOMC"
      [] u = AmountOMC -> "OMC"
      [] u = AmountMilliOMC -> "mOMC"
      [] u = AmountMicroOMC -> "μOMC"
      [] u = AmountHao -> "Hao"
      [] OTHER -> "1e" \o FormatInt(u) \o " OMC"

\* func round(f float64) Amount
round(arch, f) ==
    IF FLtZero(f) THEN ToInt64(arch, FSub(f, Half))
    ELSE ToInt64(arch, FAdd(f, Half))

\* A faulty NewAmount, without the case for -Infinity.
NewAmountNoNegInf(arch, f, tokentype) ==
    IF IsNaN(f) \/ IsInf(f, 1)
    THEN [amt |-> I64(0), err |-> "invalid bitcoin amount"]
    ELSE IF tokentype = 0
    THEN [amt |-> round(arch, FMul(f, HaoPerBitcoin)), err |-> "nil"]
    ELSE [amt |-> round(arch, f), err |-> "nil"]

\* A faulty NewAmount, with the test on tokentype the wrong way round.
NewAmountSwapped(arch, f, tokentype) ==
    IF IsNaN(f) \/ IsInf(f, 1) \/ IsInf(f, -1)
    THEN [amt |-> I64(0), err |-> "invalid bitcoin amount"]
    ELSE IF tokentype # 0
    THEN [amt |-> round(arch, FMul(f, HaoPerBitcoin)), err |-> "nil"]
    ELSE [amt |-> round(arch, f), err |-> "nil"]

\* func NewAmount(f float64, tokentype uint64) (Amount, error)
NewAmount(arch, f, tokentype) ==
    IF IsNaN(f) \/ IsInf(f, 1) \/ IsInf(f, -1)
    THEN [amt |-> I64(0), err |-> "invalid bitcoin amount"]
    ELSE IF tokentype = 0
    THEN [amt |-> round(arch, FMul(f, HaoPerBitcoin)), err |-> "nil"]
    ELSE [amt |-> round(arch, f), err |-> "nil"]

\* math.Pow10 looks 10^n up in three tables of float64 constants: pow10tab
\* holds 1e0 .. 1e31, pow10postab32 holds 1e0, 1e32 .. 1e288 and
\* pow10negtab32 holds 1e-0, 1e-32 .. 1e-320.
Pow10Max == 308
Pow10Min == -323
Pow10Step == 32
pow10tab(i) == RoundF(FALSE, NPow10(i), 0, FALSE)
pow10postab32 ==
    << F64(<<0, 0, 0, 128>>, -52),
       F64(<<28183, 27146, 25302, 157>>, 54),
       F64(<<31221, 21119, 15375, 194>>, 160),
       F64(<<13155, 17841, 22997, 239>>, 266),
       F64(<<7474, 29280, 23843, 147>>, 373),
       F64(<<31939, 19167, 2896, 182>>, 479),
       F64(<<9451, 25422, 14459, 224>>, 585),
       F64(<<26521, 16376, 10571, 138>>, 692),
       F64(<<16188, 32487, 16245, 170>>, 798),
       F64(<<3398, 1623, 4990, 210>>, 904) >>
pow10negtab32 ==
    << F64(<<0, 0, 0, 128>>, -52),
       F64(<<10035, 11089, 22671, 207>>, -159),
       F64(<<10045, 2537, 16373, 168>>, -265),
       F64(<<11946, 15871, 23041, 136>>, -371),
       F64(<<6045, 7961, 26659, 221>>, -478),
       F64(<<28276, 9462, 31344, 179>>, -584),
       F64(<<1146, 24021, 32705, 145>>, -690),
       F64(<<17962, 15122, 29342, 236>>, -797),
       F64(<<28483, 18776, 6305, 192>>, -903),
       F64(<<27993, 6304, 30311, 155>>, -1009),
       F64(<<2024>>, -1074) >>

Pow10(n) ==
    IF 0 <= n /\ n <= Pow10Max
    THEN FMul(pow10postab32[n \div Pow10Step + 1], pow10tab(n % Pow10Step))
    ELSE IF Pow10Min <= n /\ n <= 0
    THEN FDiv(pow10negtab32[(-n) \div Pow10Step + 1], pow10tab((-n) % Pow10Step))
    ELSE IF n > 0 THEN FInf(FALSE)
    ELSE FZero(FALSE)

\* A faulty ToUnit, without the 8 places between Hao and the coin.
ToUnitNoShift(a, u) == FDiv(Float64(a), Pow10(u))

\* func (a Amount) ToUnit(u AmountUnit) float64
ToUnit(a, u) == FDiv(Float64(a), Pow10(u + 8))

\* A faulty ToOMC, in Hao.
ToOMCInHao(a) == ToUnit(a, AmountHao)

\* func (a Amount) ToOMC() float64
ToOMC(a) == ToUnit(a, AmountOMC)

\* A faulty MulF64, truncating the product.
MulF64Truncated(arch, a, f) == ToInt64(arch, FMul(Float64(a), f))

\* func (a Amount) MulF64(f float64) Amount
MulF64(arch, a, f) == round(arch, FMul(Float64(a), f))

(***************************************************************************)
(* strconv.FormatFloat(f, 'f', prec, 64).  A decimal is a natural q and a  *)
(* power of ten p: the value q * 10^p.                                     *)
(***************************************************************************)
Twice(s) == s \o s

\* n zeros
RECURSIVE ZeroStr(_)
ZeroStr(n) ==
    IF n <= 0 THEN ""
    ELSE Twice(ZeroStr(n \div 2)) \o (IF n % 2 = 1 THEN "0" ELSE "")

\* The decimal digits of a natural, four at a time.
DecChunk == 10^4
Pad4(n) == ZeroStr(4 - Len(NatStr(n))) \o NatStr(n)

RECURSIVE NDecStr(_)
DecChunks(d) == IF d.q = <<>> THEN NatStr(d.r) ELSE NDecStr(d.q) \o Pad4(d.r)
NDecStr(a) == DecChunks(NDivModSmall(a, DecChunk))

\* %f of the decimal q * 10^p with the digits ds of q: the integer digits
\* (at least one), then, when p < 0, a point and -p fractional digits.
FmtPoint(sign, full, p) ==
    sign \o SubSeq(full, 1, Len(full) + p) \o "." \o
        SubSeq(full, Len(full) + p + 1, Len(full))

FmtDigits(sign, q, p, ds) ==
    IF p >= 0 THEN sign \o (IF q = <<>> THEN "0" ELSE ds \o ZeroStr(p))
    ELSE FmtPoint(sign, ZeroStr(1 - p - Len(ds)) \o ds, p)

FmtF(neg, q, p) == FmtDigits(IF neg THEN "-" ELSE "", q, p, NDecStr(q))

\* prec >= 0: the integer nearest to |f| * 10^prec, ties to even, computed
\* from the exact binary value num * 2^f.e.
FixedTie(q, c) == IF c > 0 \/ (c = 0 /\ NIsOdd(q)) THEN NAdd(q, <<1>>) ELSE q
FixedCut(num, sh, q) == FixedTie(q, NCmp(NSub(num, NShl(q, sh)), NPow2(sh - 1)))
FixedScaled(f, num) ==
    IF f.e >= 0 THEN NShl(num, f.e) ELSE FixedCut(num, -f.e, NShr(num, -f.e))
FixedDigits(f, prec) ==
    IF f.m = <<>> THEN <<>> ELSE FixedScaled(f, NMul(f.m, NPow10(prec)))

\* prec < 0: the shortest decimal that reads back as f.  The values that
\* round to f lie between the midpoints to its neighbours, Lo and Up (in
\* quarters of the last place; both count when the significand is even).
\* At the digit position p the candidates are |f| cut off at 10^p and the
\* next multiple of 10^p; the highest position where one of them lies in
\* the interval gives the digits, the nearer one if both do.
QuarterLo(f) ==
    NSub(NShl(f.m, 2), IF f.m = NPow2(ManBits - 1) /\ f.e > MinExp THEN <<1>> ELSE <<2>>)
QuarterUp(f) == NAdd(NShl(f.m, 2), <<2>>)

\* n quarters of f's last place, and 10^p, on the common scale for p.
Scaled(f, n, p) == NMul(NShl(n, Max(f.e - 2, 0)), NPow10(Max(-p, 0)))
UnitAt(f, p) == NShl(NPow10(Max(p, 0)), Max(2 - f.e, 0))

\* lo < x, or lo = x when the ends of the interval count.
Within(lo, x, incl) == NLess(lo, x) \/ (incl /\ lo = x)

\* The remainder d.r is above half of t (c compares twice d.r with t), or
\* half of it with an odd quotient.
NearUp(d, c) == c > 0 \/ (c = 0 /\ NIsOdd(d.q))

\* At position p: t is 10^p, x is |f|, lo and up are the ends of the
\* interval, d is x by t, and dv is x cut off at 10^p.  ok says that a
\* candidate lies in the interval, q is the candidate in units of 10^p.
ShortestPick(p, d, okdown, okup, nearup) ==
    [ ok |-> okdown \/ okup,
      q |-> IF okdown /\ (~okup \/ ~nearup) THEN d.q ELSE NAdd(d.q, <<1>>),
      p |-> p ]

ShortestCand(f, p, t, lo, up, d, dv) ==
    ShortestPick(p, d,
                 Within(lo, dv, ~NIsOdd(f.m)),
                 Within(NAdd(dv, t), up, ~NIsOdd(f.m)),
                 NearUp(d, NCmp(NAdd(d.r, d.r), t)))

ShortestCut(f, p, t, x, lo, up, d) == ShortestCand(f, p, t, lo, up, d, NSub(x, d.r))

ShortestScaled(f, p, t, x, lo, up) == ShortestCut(f, p, t, x, lo, up, NDivMod(x, t))

ShortestAt(f, p) ==
    ShortestScaled(f, p, UnitAt(f, p), Scaled(f, NShl(f.m, 2), p),
                   Scaled(f, QuarterLo(f), p), Scaled(f, QuarterUp(f), p))

\* A power of ten above |f| < 2^bits, at most two places above its first
\* digit (log10(2) lies between 0.30102 and 0.30103).
TopPosOf(bits) ==
    IF bits > 0 THEN (bits * 30103) \div 100000 + 1
    ELSE -(((-bits) * 30102) \div 100000)
TopPos(f) == TopPosOf(NBitLen(f.m) + f.e)

\* Seventeen digits always read back, so the position lies within
\* SearchSpan places of TopPos; a candidate at one position is one at every
\* lower position, and there is none above TopPos.
SearchSpan == ManBits \div 3 + 3

ShortestFrom(f, top) ==
    CHOOSE d \in {ShortestAt(f, p) : p \in (top - SearchSpan)..top} :
        d.ok /\ ~ShortestAt(f, d.p + 1).ok

Shortest(f) == ShortestFrom(f, TopPos(f))

FmtDec(neg, d) == FmtF(neg, d.q, d.p)

FormatFloat(f, prec) ==
    IF f.k = "nan" THEN "NaN"
    ELSE IF f.k = "inf" THEN (IF f.neg THEN "-Inf" ELSE "+Inf")
    ELSE FmtDec(f.neg, IF prec >= 0 THEN [q |-> FixedDigits(f, prec), p |-> -prec]
                       ELSE IF f.m = <<>> THEN [q |-> <<>>, p |-> 0]
                       ELSE Shortest(f))

\* A faulty Format, with the sign of the precision lost.
FormatPrecisionSign(a, u) == FormatFloat(ToUnit(a, u), u + 8) \o " " \o UnitString(u)

\* func (a Amount) Format(u AmountUnit) string
Format(a, u) == FormatFloat(ToUnit(a, u), -(u + 8)) \o " " \o UnitString(u)

\* A faulty String, in Hao.
AmountStringInHao(a) == Format(a, AmountHao)

\* func (a Amount) String() string
AmountString(a) == Format(a, AmountOMC)

(***************************************************************************)
(* The inputs the functions are applied to.                                *)
(***************************************************************************)
MaxQuarters == 10
MaxToken == 2
MaxAmt == 3
UnitSpan == 2

\* k / 4: the integers, the exact halves and the quarters between them.
Quarter(k) == RoundF(k < 0, NFromInt(Abs(k)), -2, FALSE)
Quarters == {Quarter(k) : k \in -MaxQuarters..MaxQuarters}

\* The largest and the smallest positive float64.
MaxFloat64 == F64(<<Base - 1, Base - 1, Base - 1, 255>>, MaxExp)
MinFloat64 == F64(<<1>>, MinExp)
\* 0.49999999999999994, the float64 just below 0.5
PredHalf == F64(<<Base - 1, Base - 1, Base - 1, 255>>, -ManBits - 1)
\* 2^63 and 2^52 + 1
TwoTo63 == F64(<<0, 0, 0, 128>>, IntBits - ManBits)
OddBig == F64(<<1, 0, 0, 128>>, 0)
\* The float64 of the literals 0.123456785, 12345678.5, 0.1, 0.00001,
\* 21000000, 0.000000005, 0.49999999 and 0.015.
D0_123456785 == F64(<<22391, 19478, 27508, 252>>, -56)
D12345678_5 == F64(<<0, 8192, 12455, 188>>, -29)
D0_1 == F64(<<6554, 13107, 26214, 204>>, -56)
D0_00001 == F64(<<26865, 4550, 25302, 167>>, -69)
D21000000 == F64(<<0, 0, 7120, 160>>, -28)
D0_000000005 == F64(<<3130, 17505, 26171, 171>>, -80)
D0_49999999 == F64(<<14479, 27270, 32767, 255>>, -54)
D0_015 == F64(<<7864, 22282, 24903, 245>>, -59)

PosFloats ==
    { MaxFloat64, MinFloat64, PredHalf, TwoTo63, OddBig, D0_123456785, D12345678_5,
      D0_1, D0_00001, D21000000, D0_000000005, D0_49999999 }

Floats ==
    Quarters \cup PosFloats \cup {FNeg(x) : x \in PosFloats}
        \cup {FNaN, FInf(FALSE), FInf(TRUE), FZero(TRUE)}

TokenTypes == 0..MaxToken

\* One coin, 21 million coins, 2^53 + 1, -(2^50 - 1), 2^51 - 1, and the like.
BigAmounts ==
    { I64(10^8), I64(123456789), I64(-123456789), I64(1000), I64(99999999),
      Int64(FALSE, <<16384, 13326, 22465, 59>>),
      Int64(FALSE, <<1, 0, 0, 256>>),
      Int64(TRUE, <<Base - 1, Base - 1, Base - 1, 31>>),
      Int64(FALSE, <<Base - 1, Base - 1, Base - 1, 63>>),
      MaxInt64, MinInt64 }

Amounts == {I64(n) : n \in -MaxAmt..MaxAmt} \cup BigAmounts

\* The named units, their neighbours, and exponents math.Pow10 cannot hold.
NamedUnits ==
    { AmountMegaOMC, AmountKiloOMC, AmountOMC, AmountMilliOMC, AmountMicroOMC,
      AmountHao }
FarUnits == {-340, -331, 20, 400}
Units == ((AmountHao - UnitSpan)..(AmountMegaOMC + UnitSpan)) \cup FarUnits

\* Factors for MulF64.
Factors ==
    Quarters \cup {D0_1, D0_015, MaxFloat64, FNeg(MaxFloat64), PredHalf, FNaN, FInf(FALSE)}

(***************************************************************************)
(* The state: one call at a time.  pc is "idle" between calls and "done"   *)
(* when a call has returned; op names the function called, f, tokentype,   *)
(* a and u hold its arguments and ramt, rerr, rflt and rstr what it        *)
(* returned.  arch is the build.                                           *)
(***************************************************************************)
VARIABLES arch, pc, op, f, tokentype, a, u, ramt, rerr, rflt, rstr

vars == <<arch, pc, op, f, tokentype, a, u, ramt, rerr, rflt, rstr>>

NoFloat == FZero(FALSE)
NoAmount == I64(0)

Init ==
    /\ arch \in Archs
    /\ pc = "idle"
    /\ op = "none"
    /\ f = NoFloat
    /\ tokentype = 0
    /\ a = NoAmount
    /\ u = 0
    /\ ramt = NoAmount
    /\ rerr = "nil"
    /\ rflt = NoFloat
    /\ rstr = ""

\* round(x)
CallRound ==
    /\ pc = "idle"
    /\ \E x \in Floats \ {FNaN, FInf(FALSE), FInf(TRUE)} :
        /\ f' = x
        /\ ramt' = round(arch, x)
    /\ pc' = "done"
    /\ op' = "round"
    /\ UNCHANGED <<arch, tokentype, a, u, rerr, rflt, rstr>>

\* NewAmount(x, t)
CallNewAmount ==
    /\ pc = "idle"
    /\ \E x \in Floats, t \in TokenTypes :
        /\ f' = x
        /\ tokentype' = t
        /\ ramt' = NewAmount(arch, x, t).amt
        /\ rerr' = NewAmount(arch, x, t).err
    /\ pc' = "done"
    /\ op' = "NewAmount"
    /\ UNCHANGED <<arch, a, u, rflt, rstr>>

\* n.ToUnit(v)
CallToUnit ==
    /\ pc = "idle"
    /\ \E n \in Amounts, v \in Units :
        /\ a' = n
        /\ u' = v
        /\ rflt' = ToUnit(n, v)
    /\ pc' = "done"
    /\ op' = "ToUnit"
    /\ UNCHANGED <<arch, f, tokentype, ramt, rerr, rstr>>

\* n.ToOMC()
CallToOMC ==
    /\ pc = "idle"
    /\ \E n \in Amounts :
        /\ a' = n
        /\ rflt' = ToOMC(n)
    /\ pc' = "done"
    /\ op' = "ToOMC"
    /\ UNCHANGED <<arch, f, tokentype, u, ramt, rerr, rstr>>

\* NewAmount(n.ToOMC(), 0): the value ToOMC returned goes back in.
CallNewAmountOfToOMC ==
    /\ pc = "done"
    /\ op = "ToOMC"
    /\ f' = rflt
    /\ tokentype' = 0
    /\ ramt' = NewAmount(arch, rflt, 0).amt
    /\ rerr' = NewAmount(arch, rflt, 0).err
    /\ op' = "NewAmount(ToOMC)"
    /\ UNCHANGED <<arch, pc, a, u, rflt, rstr>>

\* n.Format(v)
CallFormat ==
    /\ pc = "idle"
    /\ \E n \in Amounts, v \in Units :
        /\ a' = n
        /\ u' = v
        /\ rstr' = Format(n, v)
    /\ pc' = "done"
    /\ op' = "Format"
    /\ UNCHANGED <<arch, f, tokentype, ramt, rerr, rflt>>

\* n.String()
CallAmountString ==
    /\ pc = "idle"
    /\ \E n \in Amounts :
        /\ a' = n
        /\ rstr' = AmountString(n)
    /\ pc' = "done"
    /\ op' = "Amount.String"
    /\ UNCHANGED <<arch, f, tokentype, u, ramt, rerr, rflt>>

\* v.String()
CallUnitString ==
    /\ pc = "idle"
    /\ \E v \in Units :
        /\ u' = v
        /\ rstr' = UnitString(v)
    /\ pc' = "done"
    /\ op' = "AmountUnit.String"
    /\ UNCHANGED <<arch, f, tokentype, a, ramt, rerr, rflt>>

\* n.MulF64(x)
CallMulF64 ==
    /\ pc = "idle"
    /\ \E n \in Amounts, x \in Factors :
        /\ a' = n
        /\ f' = x
        /\ ramt' = MulF64(arch, n, x)
    /\ pc' = "done"
    /\ op' = "MulF64"
    /\ UNCHANGED <<arch, tokentype, u, rerr, rflt, rstr>>

\* The caller takes the result; the next call starts afresh.
Return ==
    /\ pc = "done"
    /\ pc' = "idle"
    /\ op' = "none"
    /\ f' = NoFloat
    /\ tokentype' = 0
    /\ a' = NoAmount
    /\ u' = 0
    /\ ramt' = NoAmount
    /\ rerr' = "nil"
    /\ rflt' = NoFloat
    /\ rstr' = ""
    /\ UNCHANGED arch

Next ==
    \/ CallRound
    \/ CallNewAmount
    \/ CallToUnit
    \/ CallToOMC
    \/ CallNewAmountOfToOMC
    \/ CallFormat
    \/ CallAmountString
    \/ CallUnitString
    \/ CallMulF64
    \/ Return

Spec == Init /\ [][Next]_vars

(***************************************************************************)
(* The properties.  Each is stated on the state a call has left: the       *)
(* arguments in f, tokentype, a and u, the results in ramt, rerr, rflt and *)
(* rstr.  An expected value is computed on exact naturals, and rounded     *)
(* once where it is a float64; a returned string is read back digit by     *)
(* digit.                                                                  *)
(***************************************************************************)
Called(name) == pc = "done" /\ op = name

\* The float64 nearest to num / den (naturals, den # 0), ties to even: the
\* value a decimal literal has, and the value a decimal string reads as.
FConst(neg, num, den) ==
    IF num = <<>> THEN FZero(neg)
    ELSE LET s == Max(0, ManBits + 3 + NBitLen(den) - NBitLen(num))
             d == NDivMod(NShl(num, s), den)
         IN  RoundF(neg, d.q, -s, d.r # <<>>)

\* The integer nearest to a finite x, a half going away from zero: i is the
\* integer part of |x| and rem what is left, in units of 2^x.e.
NearestAway(x) ==
    LET i == Trunc(x)
        rem == IF x.e >= 0 THEN <<>> ELSE NSub(x.m, NShl(i, -x.e))
        up == x.e < 0 /\ NLeq(NPow2(-x.e), NShl(rem, 1))
    IN  Int64(x.neg, IF up THEN NAdd(i, <<1>>) ELSE i)

\* n / 4 rounded to the nearest integer, a half going away from zero.
QuarterAway(n) == IF n < 0 THEN -((2 - n) \div 4) ELSE (n + 2) \div 4

\* The value of an Amount of at most two limbs.
AmountInt(x) == IF x.neg THEN -NToInt(x.mag) ELSE NToInt(x.mag)

\* x = -y as integers
Opposite(x, y) == x.mag = y.mag /\ (x.mag = <<>> \/ x.neg # y.neg)

One == F64(<<0, 0, 0, 128>>, 1 - ManBits)

\* C1: NewAmount returns an error exactly when f is NaN, +Infinity or
\* -Infinity, whatever the tokentype, and the Amount is then 0; a finite f
\* of any magnitude is accepted.
C1_ErrorIffNotFinite ==
    Called("NewAmount") =>
        /\ (rerr # "nil") <=> (f.k \in {"nan", "inf"})
        /\ f.k \in {"nan", "inf"} => rerr = "invalid bitcoin amount" /\ ramt = I64(0)
        /\ f.k = "fin" => rerr = "nil"

C1_Witness ==
    /\ Called("NewAmount")
    /\ f = FInf(TRUE)
    /\ tokentype = 1
    /\ rerr = "invalid bitcoin amount"
    /\ ramt = I64(0)

\* C2: for a finite f, NewAmount(f, 0) is round(f * 1e8) and NewAmount(f, t)
\* for t # 0 is round(f): k/4 coins are k * 25,000,000 Hao, k/4 Hao are
\* the nearest integer, NewAmount(1.0, 0) = 100000000 and
\* NewAmount(1.0, t) = 1.
C2_ScalesWholeCoins ==
    Called("NewAmount") /\ f.k = "fin" =>
        /\ rerr = "nil"
        /\ tokentype = 0 => ramt = round(arch, FMul(f, FConst(FALSE, NPow10(8), <<1>>)))
        /\ tokentype # 0 => ramt = round(arch, f)
        /\ \A k \in -MaxQuarters..MaxQuarters :
               f = Quarter(k) =>
                   ramt = IF tokentype = 0 THEN I64(k * 25000000) ELSE I64(QuarterAway(k))
        /\ f = One => ramt = IF tokentype = 0 THEN I64(100000000) ELSE I64(1)

C2_Witness ==
    /\ Called("NewAmount")
    /\ f = One
    /\ tokentype = 0
    /\ rerr = "nil"
    /\ ramt = I64(100000000)

\* C3: for every finite x, round(x) is the integer nearest to x, and the
\* one of larger absolute value when x lies halfway between two integers.
C3_RoundIsNearest == Called("round") => ramt = NearestAway(f)

\* C4: for an integer n with |n| < 2^51, NewAmount(Amount(n).ToOMC(), 0) is
\* Amount(n), with no error.
C4_RoundTrip ==
    Called("NewAmount(ToOMC)") /\ NLess(a.mag, NPow2(51)) =>
        ramt = a /\ rerr = "nil"

C4_Witness ==
    /\ Called("NewAmount(ToOMC)")
    /\ a = I64(-123456789)
    /\ rflt = FConst(TRUE, NFromInt(123456789), NPow10(8))
    /\ ramt = a
    /\ rerr = "nil"

\* C10: for every finite f and every tokentype t, NewAmount(-f, t) is the
\* negation of NewAmount(f, t).
C10_SignSymmetry ==
    Called("NewAmount") /\ f.k = "fin" =>
        Opposite(ramt, NewAmount(arch, FNeg(f), tokentype).amt)

\* Reading a string: the character at i, the first place of a character (0
\* when it has none), the value of a digit (-1 for any other character) and
\* the natural a string of digits writes.
Ch(s, i) == SubSeq(s, i, i)
FirstAt(s, c) ==
    IF \A i \in 1..Len(s) : Ch(s, i) # c THEN 0
    ELSE CHOOSE i \in 1..Len(s) : Ch(s, i) = c /\ \A j \in 1..(i - 1) : Ch(s, j) # c
DigitVal(c) == FirstAt("0123456789", c) - 1
IsDigits(s) == s # "" /\ \A i \in 1..Len(s) : DigitVal(Ch(s, i)) >= 0
AllZero(s) == \A i \in 1..Len(s) : Ch(s, i) = "0"

RECURSIVE DecAt(_, _, _)
DecAt(s, i, acc) ==
    IF i > Len(s) \/ Len(acc) < 0 THEN acc
    ELSE DecAt(s, i + 1, NAdd(NMulSmall(acc, 10), NFromInt(DigitVal(Ch(s, i)))))
DecNat(s) == DecAt(s, 1, <<>>)

\* A formatted amount is a number, one space and a label; the number is an
\* optional sign, an integer part and, after a point, a fraction.
NumPart(s) == SubSeq(s, 1, FirstAt(s, " ") - 1)
LabelPart(s) == IF FirstAt(s, " ") = 0 THEN "" ELSE SubSeq(s, FirstAt(s, " ") + 1, Len(s))
Signed(s) == s # "" /\ Ch(s, 1) = "-"
Unsigned(s) == IF Signed(s) THEN SubSeq(s, 2, Len(s)) ELSE s
IntPart(s) == IF FirstAt(s, ".") = 0 THEN s ELSE SubSeq(s, 1, FirstAt(s, ".") - 1)
FracPart(s) == IF FirstAt(s, ".") = 0 THEN "" ELSE SubSeq(s, FirstAt(s, ".") + 1, Len(s))
WellFormed(s) ==
    /\ IsDigits(IntPart(s))
    /\ Len(IntPart(s)) = 1 \/ Ch(s, 1) # "0"
    /\ FirstAt(s, ".") # 0 => IsDigits(FracPart(s))

\* num / den rounded to the nearest natural, a half going to the even one.
NearestEvenOf(d, den) ==
    IF NLess(den, NShl(d.r, 1)) \/ (NShl(d.r, 1) = den /\ NIsOdd(d.q)) THEN NAdd(d.q, <<1>>)
    ELSE d.q
NearestEven(num, den) == NearestEvenOf(NDivMod(num, den), den)

\* The float64 that the decimal n * 10^q reads as.
Reads(n, q) ==
    IF q >= 0 THEN FConst(FALSE, NMul(n, NPow10(q)), <<1>>) ELSE FConst(FALSE, n, NPow10(-q))

\* s writes |x|, finite, with exactly prec digits after the point, and a
\* point only when prec > 0: the decimal of that many places nearest to |x|.
FixedOf(s, x, prec) ==
    /\ WellFormed(s)
    /\ Len(FracPart(s)) = prec
    /\ (FirstAt(s, ".") = 0) <=> (prec = 0)
    /\ IF x.m = <<>> THEN AllZero(IntPart(s) \o FracPart(s))
       ELSE DecNat(IntPart(s) \o FracPart(s)) =
                NearestEven(NMul(NShl(x.m, Max(x.e, 0)), NPow10(prec)), NPow2(Max(-x.e, 0)))

\* No decimal of fewer digits than n * 10^q reads as the float64 y: with
\* the zeros at the end of n taken off, the two decimals of one digit less
\* that lie around it do not.
RECURSIVE NoShorter(_, _, _)
NoShorter(n, q, y) ==
    IF NDivModSmall(n, 10).r = 0 THEN NoShorter(NDivModSmall(n, 10).q, q + 1, y)
    ELSE \/ NLess(n, <<10>>)
         \/ /\ Reads(NDivModSmall(n, 10).q, q + 1) # y
            /\ Reads(NAdd(NDivModSmall(n, 10).q, <<1>>), q + 1) # y

\* s writes |x|, finite, in the fewest digits that read as x again, with no
\* exponent, no zero at the end of a fraction and no point without one.
ShortestOf(s, x) ==
    /\ WellFormed(s)
    /\ FirstAt(s, ".") # 0 => Ch(s, Len(s)) # "0"
    /\ IF x.m = <<>> THEN s = "0"
       ELSE /\ Reads(DecNat(IntPart(s) \o FracPart(s)), -Len(FracPart(s))) = [x EXCEPT !.neg = FALSE]
            /\ NoShorter(DecNat(IntPart(s) \o FracPart(s)), -Len(FracPart(s)), [x EXCEPT !.neg = FALSE])

\* s writes x as strconv.FormatFloat(x, 'f', prec, 64) does.
Renders(s, x, prec) ==
    CASE x.k = "nan" -> s = "NaN"
      [] x.k = "inf" -> s = (IF x.neg THEN "-Inf" ELSE "+Inf")
      [] OTHER -> /\ Signed(s) <=> x.neg
                  /\ IF prec >= 0 THEN FixedOf(Unsigned(s), x, prec) ELSE ShortestOf(Unsigned(s), x)

\* The float64 nearest to an integer, to 10^n, and to the quotient of two
\* finite float64 (the divisor not zero).
IntFloat(x) == FConst(x.neg, x.mag, <<1>>)
TenTo(n) == IF n >= 0 THEN FConst(FALSE, NPow10(n), <<1>>) ELSE FConst(FALSE, <<1>>, NPow10(-n))
Quot(x, y) ==
    FConst(x.neg # y.neg, NShl(x.m, x.e - Min(x.e, y.e)), NShl(y.m, y.e - Min(x.e, y.e)))

\* 10^n is a float64, so that 1 / 10^n is the float64 nearest to 10^-n (n up
\* to 22).  Up to ExactInt every integer is a float64.
IsExactTen(n) ==
    NShl(TenTo(n).m, TenTo(n).e + Max(0, -TenTo(n).e)) = NShl(NPow10(n), Max(0, -TenTo(n).e))
ExactInt == NPow2(ManBits)

C8_UnitLabels ==
    Called("AmountUnit.String") =>
        /\ u = 6 => rstr = "MOMC"
        /\ u = 3 => rstr = "kOMC"
        /\ u = 0 => rstr = "OMC"
        /\ u = -3 => rstr = "mOMC"
        /\ u = -6 => rstr = "μOMC"
        /\ u = -8 => rstr = "Hao"
        /\ u = 2 => rstr = "1e2 OMC"
        /\ u = -10 => rstr = "1e-10 OMC"
        /\ u = -340 => rstr = "1e-340 OMC"
        /\ u \notin {6, 3, 0, -3, -6, -8} =>
            /\ SubSeq(rstr, 1, 2) = "1e"
            /\ SubSeq(rstr, Len(rstr) - 3, Len(rstr)) = " OMC"
            /\ u < 0 <=> SubSeq(rstr, 3, 3) = "-"
            /\ DecNat(SubSeq(rstr, IF u < 0 THEN 4 ELSE 3, Len(rstr) - 4)) = NFromInt(Abs(u))
            /\ SubSeq(rstr, IF u < 0 THEN 4 ELSE 3, IF u < 0 THEN 4 ELSE 3) # "0"

C8_Witness == Called("AmountUnit.String") /\ u = 2 /\ rstr = "1e2 OMC"

\* C9: for a finite f, a.MulF64(f) is round applied to the float64 product
\* of a and f, the rounding NewAmount applies: for a small a and f = k/4 it
\* is the integer nearest to a * k / 4, a half going away from zero, and
\* Amount(1000).MulF64(0.5) is Amount(500).
C9_MulF64Rounds ==
    Called("MulF64") /\ f.k = "fin" =>
        /\ ramt = round(arch, RoundF(a.neg # f.neg, NMul(IntFloat(a).m, f.m),
                                     IntFloat(a).e + f.e, FALSE))
        /\ \A k \in -MaxQuarters..MaxQuarters :
               f = Quarter(k) /\ NLeq(a.mag, <<MaxAmt>>) =>
                   ramt = I64(QuarterAway(AmountInt(a) * k))
        /\ a = I64(1000) /\ f = Quarter(2) => ramt = I64(500)

C9_Witness == Called("MulF64") /\ a = I64(1000) /\ f = Quarter(2) /\ ramt = I64(500)

\* C5 as stated: for every Amount a and every unit u, Format(u) is a
\* fixed-point decimal with exactly -(u+8) digits after the point, one
\* space and the label of u.
C5_ExactlyMinusUPlus8Digits ==
    Called("Format") =>
        /\ WellFormed(Unsigned(NumPart(rstr)))
        /\ Len(FracPart(NumPart(rstr))) = -(u + 8)
        /\ LabelPart(rstr) = UnitString(u)

\* C5, amended: Format(u) is a.ToUnit(u) written by FormatFloat in format
\* 'f' with precision -(u+8), one space and the label of u.  For u <= -8
\* and a finite value that is the decimal with exactly -(u+8) digits after
\* the point nearest to the value; for u > -8 the precision is negative and
\* the number is the shortest decimal that reads as the same float64, with
\* no digits after the point when the value is a whole number; a value that
\* is not finite is written "+Inf", "-Inf" or "NaN".
C5_FormatFloatPrecision ==
    Called("Format") =>
        /\ FirstAt(rstr, " ") > 1
        /\ LabelPart(rstr) = UnitString(u)
        /\ Renders(NumPart(rstr), ToUnit(a, u), -(u + 8))
        /\ u > -8 /\ u + 8 < Pow10Step /\ IsExactTen(u + 8) /\ NLeq(a.mag, ExactInt) =>
               Renders(NumPart(rstr), FConst(a.neg, a.mag, NPow10(u + 8)), -1)

C5_Witness ==
    /\ Called("Format")
    /\ a = I64(1)
    /\ u = -10
    /\ rstr = "100.00 1e-10 OMC"

\* C7: a.String() is the string a.Format(0) returns, the amount in whole
\* coins in the fewest digits and the label "OMC":
\* Amount(100000000).String() is "1 OMC".
C7_StringIsFormatOMC ==
    Called("Amount.String") =>
        /\ rstr = Format(a, AmountOMC)
        /\ LabelPart(rstr) = "OMC"
        /\ NLeq(a.mag, ExactInt) =>
               Renders(NumPart(rstr), FConst(a.neg, a.mag, NPow10(8)), -1)
        /\ a = I64(100000000) => rstr = "1 OMC"
        /\ a = I64(123456789) => rstr = "1.23456789 OMC"
        /\ a = I64(-1) => rstr = "-0.00000001 OMC"
        /\ a = I64(0) => rstr = "0 OMC"

C7_Witness == Called("Amount.String") /\ a = I64(100000000) /\ rstr = "1 OMC"

====
